---- MODULE Spec2Model ----
(***************************************************************************)
(* Model of the sypl logger's message pipeline: the print operations,      *)
(* Sypl.process (one worker per message), Sypl.processOutputs (one worker  *)
(* per selected output), the per-output processor chain and the sink.      *)
(* Strings are sequences of one-character strings, so that the substring   *)
(* tests of the code (strings.Contains) are computed as the code does.     *)
(***************************************************************************)
EXTENDS Integers, Sequences, FiniteSets, TLC

\* Bounds of the model.
MaxOutputs == 2
MaxBatch == 2

----------------------------------------------------------------------------
\* strings.Contains(s, substr)
Contains(s, substr) ==
    \E i \in 0..(Len(s) - Len(substr)) : SubSeq(s, i + 1, i + Len(substr)) = substr

RECURSIVE Join(_, _)
\* strings.Join(elems, sep)
Join(elems, sep) ==
    IF Len(elems) = 0 THEN <<>>
    ELSE IF Len(elems) = 1 THEN elems[1]
    ELSE elems[1] \o sep \o Join(Tail(elems), sep)

\* Membership of a value in a sequence.
InSeq(x, s) == \E j \in 1..Len(s) : s[j] = x

----------------------------------------------------------------------------
\* level.Level: an int, None = iota.
None == 0
Fatal == 1
Error == 2
Info == 3
Warn == 4
Debug == 5
Trace == 6

Levels == None..Trace

\* The names with "info" and "warn" exchanged.
names_WarnBeforeInfo ==
    << <<"n","o","n","e">>, <<"f","a","t","a","l">>, <<"e","r","r","o","r">>,
       <<"w","a","r","n">>, <<"i","n","f","o">>, <<"d","e","b","u","g">>,
       <<"t","r","a","c","e">> >>

\* var names = []string{"none", "fatal", "error", "info", "warn", "debug", "trace"}
names ==
    << <<"n","o","n","e">>, <<"f","a","t","a","l">>, <<"e","r","r","o","r">>,
       <<"i","n","f","o">>, <<"w","a","r","n">>, <<"d","e","b","u","g">>,
       <<"t","r","a","c","e">> >>

\* func (l Level) String() string
String(l) ==
    IF l < None \/ l > Trace THEN <<"U","n","k","n","o","w","n">> ELSE names[l + 1]

\* func LevelsToString(levels []Level) string
LevelsToString(levels) ==
    Join([j \in 1..Len(levels) |-> String(levels[j])], <<",">>)

----------------------------------------------------------------------------
\* flag.Flag
Flags == {"None", "Force", "Mute", "Skip", "SkipAndForce", "SkipAndMute"}

\* status.Status
Statuses == {"Enabled", "Disabled"}

----------------------------------------------------------------------------
\* message.New(l, ct): a message with its defaults.
NewMessage(l, ct) ==
    [ level |-> l, original |-> ct, processed |-> ct, flag |-> "None",
      tags |-> <<>>, fields |-> {}, outputsNames |-> <<>>,
      processorsNames |-> <<>>, componentName |-> <<>>, outputName |-> <<>>,
      processorName |-> "" ]

\* message.Copy(m): a deep copy; messages are values here, the reference the
\* copy lives at is chosen by the caller.
Copy(m) == m

RECURSIVE AddTags(_, _)
\* m.AddTags(tags...): tags are an ordered set, a tag already there is not
\* added again.
AddTags(m, tags) ==
    IF Len(tags) = 0 THEN m
    ELSE AddTags(
            IF InSeq(Head(tags), m.tags) THEN m
            ELSE [m EXCEPT !.tags = Append(@, Head(tags))],
            Tail(tags))

\* fields.Copy(src, dst): the entries of src written over dst. Fields are
\* sets of <<key, value>> pairs with unique keys.
FieldsCopy(src, dst) ==
    src \cup {e \in dst : \A f \in src : f[1] # e[1]}

----------------------------------------------------------------------------
\* Functional message options.

\* WithFlag(f)
WithFlag(f, m) == [m EXCEPT !.flag = f]

\* WithOutputsNames(outputsNames...)
WithOutputsNames(outputsNames, m) == [m EXCEPT !.outputsNames = outputsNames]

----------------------------------------------------------------------------
\* Built-in processors: the run function of each, as message -> [msg, err].

\* Prefixer that writes the prefix after the content.
Prefixer_Suffix(prefix, m) ==
    [msg |-> [m EXCEPT !.processed = @ \o prefix], err |-> FALSE]

\* Prefixer(prefix)
Prefixer(prefix, m) ==
    [msg |-> [m EXCEPT !.processed = prefix \o @], err |-> FALSE]

\* Tagger(tag...)
Tagger(tags, m) == [msg |-> AddTags(m, tags), err |-> FALSE]

\* ErrorSimulator returning no error.
ErrorSimulator_NoError(m) == [msg |-> m, err |-> FALSE]

\* ErrorSimulator(msg)
ErrorSimulator(m) == [msg |-> m, err |-> TRUE]

\* ForceBasedOnLevel with the test of PrintOnlyAtLevel (negated).
ForceBasedOnLevel_Negated(levels, m) ==
    [msg |-> IF ~Contains(LevelsToString(levels), String(m.level))
             THEN [m EXCEPT !.flag = "Force"] ELSE m,
     err |-> FALSE]

\* ForceBasedOnLevel(levels...)
ForceBasedOnLevel(levels, m) ==
    [msg |-> IF Contains(LevelsToString(levels), String(m.level))
             THEN [m EXCEPT !.flag = "Force"] ELSE m,
     err |-> FALSE]

\* MuteBasedOnLevel that mutes only the first listed level.
MuteBasedOnLevel_FirstOnly(levels, m) ==
    [msg |-> IF Len(levels) > 0 /\ m.level = levels[1]
             THEN [m EXCEPT !.flag = "Mute"] ELSE m,
     err |-> FALSE]

\* MuteBasedOnLevel(levels...)
MuteBasedOnLevel(levels, m) ==
    [msg |-> IF Contains(LevelsToString(levels), String(m.level))
             THEN [m EXCEPT !.flag = "Mute"] ELSE m,
     err |-> FALSE]

\* PrintOnlyAtLevel(levels...)
PrintOnlyAtLevel(levels, m) ==
    [msg |-> IF ~Contains(LevelsToString(levels), String(m.level))
             THEN [m EXCEPT !.flag = "Mute"] ELSE m,
     err |-> FALSE]

\* A processor value: its name and the arguments its factory closed over.
Processor(kind, str, levels) == [name |-> kind, str |-> str, levels |-> levels]

\* processor.Run(m): names itself on the message, then calls the run function.
Run(p, m) ==
    LET n == [m EXCEPT !.processorName = p.name] IN
    CASE p.name = "Prefixer" -> Prefixer(p.str, n)
      [] p.name = "Tagger" -> Tagger(<<p.str>>, n)
      [] p.name = "ErrorSimulator" -> ErrorSimulator(n)
      [] p.name = "ForceBasedOnLevel" -> ForceBasedOnLevel(p.levels, n)
      [] p.name = "MuteBasedOnLevel" -> MuteBasedOnLevel(p.levels, n)
      [] p.name = "PrintOnlyAtLevel" -> PrintOnlyAtLevel(p.levels, n)

----------------------------------------------------------------------------
\* output.New(name, maxLevel, writer, processors...): an enabled output. The
\* writer is a sink that accepts every write, or one that fails every write.
NewOutput(name, maxLevel, sinkFails, processors) ==
    [ name |-> name, status |-> "Enabled", maxLevel |-> maxLevel,
      sinkFails |-> sinkFails, processors |-> processors ]

\* The outputs a caller may register.
Catalog ==
    { NewOutput(<<"a">>, Info, FALSE,
                <<Processor("Prefixer", <<"X">>, <<>>)>>),
      NewOutput(<<"a","b">>, Trace, FALSE,
                <<Processor("MuteBasedOnLevel", <<>>, <<Info, Warn>>),
                  Processor("Prefixer", <<"Y">>, <<>>)>>),
      NewOutput(<<"b">>, Warn, FALSE,
                <<Processor("ForceBasedOnLevel", <<>>, <<Debug>>),
                  Processor("Tagger", <<"t">>, <<>>)>>),
      NewOutput(<<"c">>, Error, TRUE,
                <<Processor("PrintOnlyAtLevel", <<>>, <<Fatal, Error>>)>>),
      NewOutput(<<"d">>, Trace, FALSE,
                <<Processor("ErrorSimulator", <<>>, <<>>),
                  Processor("Prefixer", <<"Z">>, <<>>)>>) }

\* The name given to the factory New(name, outputs...).
ParentName == <<"s">>

\* Values of the SYPL_FILTER environment variable.
Filters == { <<>>, <<"x">> }

\* Contents of the printed messages.
Contents == { <<>>, <<"m">> }

\* Output-name lists a caller gives to WithOutputsNames.
OutputsNamesLists == { <<>>, << <<"a","b">> >>, << <<"a">>, <<"d">> >> }

VARIABLES
    outputs,     \* Sypl.outputs
    filterEnv,   \* os.Getenv(shared.FilterEnvVar)
    pc,          \* "idle", "running" (inside process), "returned", "exited"
    batch,       \* the messages handed to process, as they were at the call
    heap,        \* message objects by reference
    mpc,         \* per message worker: "start", "wait", "done"
    calls,       \* per (message, output): number of Output.Write invocations
    wref,        \* per (message, output): the message reference Write received
    wpc,         \* per (message, output): "none", "launched", "chain", "done"
    widx,        \* per (message, output): index of the next processor
    werr,        \* per (message, output): Write returned an error
    written,     \* per (message, output): the messages handed to the sink
    shouldExit,  \* the local flag of process
    fields,      \* Sypl.fields, the global fields
    tags,        \* Sypl.tags, the global tags
    cur,         \* Sypl.Name of the logger the call is made through
    request,     \* the print operation that called process, and its tuples
    children,    \* the loggers made by Sypl.New(name): name, outputs slice
    lastMut,     \* the last change of the outputs made through a logger
    status,      \* Sypl.status of the logger the factory made
    sypls,       \* Sypl structs by reference, slices and maps held by reference
    arrays,      \* the backing arrays of the slices, by reference
    maps,        \* the fields.Fields maps, by reference
    expect,      \* per Sypl struct: the tags and outputs set through it alone
    held,        \* the pre-built message a caller keeps between two prints
    built        \* the message a print builds by applying functional options

vars == << outputs, filterEnv, pc, batch, heap, mpc, calls, wref, wpc, widx,
           werr, written, shouldExit, fields, tags, cur, request, children,
           lastMut, status, sypls, arrays, maps, expect, held, built >>

logger == << outputs, filterEnv, fields, tags >>

caller == << cur, request >>

family == << children, lastMut >>

objects == << status, sypls, arrays, maps, expect, held, built >>

\* GetName() of the logger the call is made through.
LoggerName == cur

\* The request of a call that hands pre-built messages to process.
NoRequest == [op |-> "process", mtos |-> <<>>]

\* The caller holds no message.
NoMessage == [msg |-> <<>>]

\* No output was changed through a logger yet.
NoMutation == [by |-> <<>>, kind |-> "none", level |-> None, index |-> 0]

Workers == (1..Len(batch)) \X (1..Len(outputs))

\* The reference of the i-th message of the batch.
OriginalRef(i) == <<i, 0>>

\* Every output works on the message the caller passed (no copy).
OutputMessageRef_Shared(i, k) == <<i, 0>>

\* The reference of the copy processOutputs makes for the k-th output:
\* msg := message.Copy(m) allocates a new message.
OutputMessageRef(i, k) == <<i, k>>

\* The reference of the map Sypl.fields holds.
GlobalFieldsRef == <<0, 0>>

\* The merge writes into the map of the logger.
FinalFieldsRef_Global(i) == GlobalFieldsRef

\* The reference of the map the worker of message i merges the fields into:
\* finalFields := fields.Fields{} allocates a new map.
FinalFieldsRef(i) == <<i, 1>>

\* GetOutputsNames()
GetOutputsNames == [k \in 1..Len(outputs) |-> outputs[k].name]

\* The selection with the joined list compared to the name of the output.
OutputSelected_WholeList(o, outputsNames) ==
    o.status = "Enabled" /\ outputsNames = o.name

\* The test of processOutputs: only enabled outputs, and named (listed) ones.
OutputSelected(o, outputsNames) ==
    o.status = "Enabled" /\ Contains(outputsNames, o.name)

\* The drop test with a test of the status of the logger added.
Dropped_StatusChecked(m) ==
    \/ status = "Disabled"
    \/ m.original = <<>> /\ m.flag = "SkipAndMute"
    \/ filterEnv # <<>> /\ ~Contains(filterEnv, LoggerName)

\* The drop test without the test of the empty content and SkipAndMute.
Dropped_FilterOnly(m) == filterEnv # <<>> /\ ~Contains(filterEnv, LoggerName)

\* The two early returns of a message worker of process.
Dropped(m) ==
    \/ m.original = <<>> /\ m.flag = "SkipAndMute"
    \/ filterEnv # <<>> /\ ~Contains(filterEnv, LoggerName)

\* The output names a message worker resolves.
ResolvedOutputsNames(m) ==
    IF Len(m.outputsNames) > 0 THEN m.outputsNames ELSE GetOutputsNames

\* The merge with the two copies exchanged: the global fields written last.
Merged_GlobalWins(m) ==
    LET m1 == [m EXCEPT !.outputsNames = ResolvedOutputsNames(m)]
        m2 == [m1 EXCEPT !.fields = FieldsCopy(fields, FieldsCopy(m1.fields, {}))]
    IN AddTags(m2, tags \o m2.tags)

\* The message after the worker merged the routing, the global fields and the
\* global tags into it (New leaves fields and tags empty, never nil).
Merged(m) ==
    LET m1 == [m EXCEPT !.outputsNames = ResolvedOutputsNames(m)]
        m2 == [m1 EXCEPT !.fields = FieldsCopy(m1.fields, FieldsCopy(fields, {}))]
    IN AddTags(m2, tags \o m2.tags)

RECURSIVE LaunchHeap(_, _, _, _)
\* The heap after the loop of processOutputs ran for outputs k..Len(outputs):
\* each output gets a copy, a selected output's copy is stamped with the
\* component and output names.
LaunchHeap(h, i, k, outputsNames) ==
    IF k > Len(outputs) THEN h
    ELSE LET r == OutputMessageRef(i, k)
             c == Copy(h[OriginalRef(i)])
             h1 == (r :> c) @@ h
             h2 == IF OutputSelected(outputs[k], outputsNames)
                   THEN (r :> [c EXCEPT !.componentName = LoggerName,
                                        !.outputName = outputs[k].name]) @@ h1
                   ELSE h1
         IN LaunchHeap(h2, i, k + 1, outputsNames)

----------------------------------------------------------------------------
\* Output.Write, step by step.

\* Flags under which Write runs no processor.
SkipsProcessors(f) == f \in {"Skip", "SkipAndForce", "SkipAndMute"}

\* The level filter of Write: a forced message passes, otherwise the level is
\* not None and not more verbose than maxLevel.
PassesLevelFilter(m, o) ==
    \/ m.flag \in {"Force", "SkipAndForce"}
    \/ m.level # None /\ m.level <= o.maxLevel

\* Flags under which Write hands nothing to the sink.
Muted(m) == m.flag \in {"Mute", "SkipAndMute"}

----------------------------------------------------------------------------
\* A group that starts no further function once one returned an error.
GroupCancelled_OnError(errs) == errs # {}

\* errgroup.Group without a context: an error of one function cancels nothing.
GroupCancelled(errs) == FALSE

\* processOutputs that does not wait for its group.
ProcessOutputsWait_NoWait(i) == TRUE

\* g.Wait() of processOutputs: every Write launched for message i returned.
ProcessOutputsWait(i) ==
    \A w \in Workers : w[1] = i => wpc[w] \in {"none", "done"}

\* The errors the Writes of message i returned so far.
GroupErrors(i) == {w \in Workers : w[1] = i /\ werr[w]}

\* process that does not wait for its group.
ProcessWait_NoWait == TRUE

\* g.Wait() of process: every message worker returned.
ProcessWait == \A i \in 1..Len(batch) : mpc[i] = "done"

----------------------------------------------------------------------------
\* sypl.New(name): no output, empty fields and tags; the environment is any.
Init ==
    /\ outputs = <<>>
    /\ filterEnv \in Filters
    /\ fields = {}
    /\ tags = <<>>
    /\ pc = "idle"
    /\ batch = <<>>
    /\ heap = <<>>
    /\ mpc = <<>>
    /\ calls = <<>>
    /\ wref = <<>>
    /\ wpc = <<>>
    /\ widx = <<>>
    /\ werr = <<>>
    /\ written = <<>>
    /\ shouldExit = FALSE
    /\ cur = ParentName
    /\ request = NoRequest
    /\ children = <<>>
    /\ lastMut = NoMutation
    /\ status = "Enabled"
    /\ sypls = <<>>
    /\ arrays = <<>>
    /\ maps = <<>>
    /\ expect = <<>>
    /\ held = NoMessage
    /\ built = NoMessage

run == << pc, batch, heap, mpc, calls, wref, wpc, widx, werr, written, shouldExit >>

\* AddOutputs(o), by a caller that adds no output under a name already there.
AddOutputs ==
    /\ pc = "idle"
    /\ Len(outputs) < MaxOutputs
    /\ \E o \in Catalog :
          /\ \A k \in 1..Len(outputs) : outputs[k].name # o.name
          /\ outputs' = Append(outputs, o)
    /\ UNCHANGED << filterEnv, fields, tags, run, caller, family, objects >>

\* GetOutputs()[k].SetStatus(status.Disabled)
SetStatus ==
    /\ pc = "idle"
    /\ \E k \in 1..Len(outputs) :
          /\ outputs[k].status = "Enabled"
          /\ outputs' = [outputs EXCEPT ![k].status = "Disabled"]
    /\ UNCHANGED << filterEnv, fields, tags, run, caller, family, objects >>

\* The entry of process(messages...) on the logger named sypl, called by the
\* print operation req: one worker per message is started.
dispatch(sypl, req, messages) ==
    /\ pc = "idle"
    /\ cur' = sypl
    /\ request' = req
    /\ pc' = "running"
    /\ batch' = messages
    /\ heap' = [r \in {OriginalRef(i) : i \in 1..Len(messages)} |-> messages[r[1]]]
    /\ mpc' = [i \in 1..Len(messages) |-> "start"]
    /\ calls' = [w \in (1..Len(messages)) \X (1..Len(outputs)) |-> 0]
    /\ wref' = [w \in (1..Len(messages)) \X (1..Len(outputs)) |-> OriginalRef(w[1])]
    /\ wpc' = [w \in (1..Len(messages)) \X (1..Len(outputs)) |-> "none"]
    /\ widx' = [w \in (1..Len(messages)) \X (1..Len(outputs)) |-> 1]
    /\ werr' = [w \in (1..Len(messages)) \X (1..Len(outputs)) |-> FALSE]
    /\ written' = [w \in (1..Len(messages)) \X (1..Len(outputs)) |-> <<>>]
    /\ shouldExit' = FALSE
    /\ UNCHANGED << logger, family, objects >>

\* process(messages...) on the logger the factory made.
process(messages) == dispatch(ParentName, NoRequest, messages)

\* PrintWithOptions(l, ct, WithFlag(f), WithOutputsNames(on...))
PrintWithOptions ==
    \E l \in Levels, ct \in Contents, f \in Flags, on \in OutputsNamesLists :
        /\ ct = <<>> => f \in {"None", "SkipAndMute"}
        /\ process(<< WithOutputsNames(on, WithFlag(f, NewMessage(l, ct))) >>)

\* Sequences of 1..n elements of S.
SeqsUpTo(S, n) == UNION {[1..j -> S] : j \in 1..n}

\* Pre-built messages a caller hands to PrintMessage.
PrebuiltMessages == {NewMessage(l, <<"m">>) : l \in {Fatal, Error, Info}}

\* PrintMessage(messages...)
PrintMessage ==
    \E messages \in SeqsUpTo(PrebuiltMessages, MaxBatch) : process(messages)

\* The MessageToOutput tuples a caller hands to PrintMessagesToOutputs.
MessagesToOutputs ==
    [Content : {<<"m">>}, Level : {Debug}, OutputName : {<<"a","b">>, <<"z">>}]

\* PrintMessagesToOutputs(messagesToOutputs...)
PrintMessagesToOutputs ==
    \E mtos \in SeqsUpTo(MessagesToOutputs, MaxBatch) :
        dispatch(ParentName, [op |-> "PrintMessagesToOutputs", mtos |-> mtos],
                [j \in 1..Len(mtos) |->
                    [NewMessage(mtos[j].Level, mtos[j].Content)
                        EXCEPT !.outputsNames = <<mtos[j].OutputName>>]])

\* A message worker of process, from its start to the launch of the output
\* workers by processOutputs (the loop runs in this worker, one after another).
MsgStart(i) ==
    /\ pc = "running"
    /\ mpc[i] = "start"
    /\ LET m == heap[OriginalRef(i)] IN
       IF Dropped(m)
       THEN /\ mpc' = [mpc EXCEPT ![i] = "done"]
            /\ UNCHANGED << heap, wref, wpc, widx, fields >>
       ELSE LET mm == Merged(m)
                outputsNames == Join(ResolvedOutputsNames(m), <<",">>)
                sel(k) == OutputSelected(outputs[k], outputsNames)
            IN /\ mpc' = [mpc EXCEPT ![i] = "wait"]
               /\ heap' = LaunchHeap((OriginalRef(i) :> mm) @@ heap, i, 1, outputsNames)
               /\ wref' = [w \in Workers |->
                             IF w[1] = i /\ sel(w[2])
                             THEN OutputMessageRef(i, w[2]) ELSE wref[w]]
               /\ wpc' = [w \in Workers |->
                             IF w[1] = i /\ sel(w[2]) THEN "launched" ELSE wpc[w]]
               /\ widx' = [w \in Workers |->
                             IF w[1] = i /\ sel(w[2]) /\ SkipsProcessors(mm.flag)
                             THEN Len(outputs[w[2]].processors) + 1 ELSE widx[w]]
               /\ fields' = IF FinalFieldsRef(i) = GlobalFieldsRef
                            THEN mm.fields ELSE fields
    /\ UNCHANGED << outputs, filterEnv, tags, caller, family, objects, pc, batch, calls, werr,
                    written, shouldExit >>

\* The function handed to g.Go starts: o.Write(msg) is invoked.
OutputWriteBegin(w) ==
    /\ pc = "running"
    /\ wpc[w] = "launched"
    /\ IF GroupCancelled(GroupErrors(w[1]))
       THEN /\ wpc' = [wpc EXCEPT ![w] = "done"]
            /\ UNCHANGED calls
       ELSE /\ wpc' = [wpc EXCEPT ![w] = "chain"]
            /\ calls' = [calls EXCEPT ![w] = @ + 1]
    /\ UNCHANGED << logger, caller, family, objects, pc, batch, heap, mpc, wref, widx, werr, written, shouldExit >>

\* Write runs the next processor of the output's chain on its message; an
\* error ends Write.
OutputRunProcessor(w) ==
    /\ pc = "running"
    /\ wpc[w] = "chain"
    /\ widx[w] <= Len(outputs[w[2]].processors)
    /\ LET r == Run(outputs[w[2]].processors[widx[w]], heap[wref[w]]) IN
          /\ heap' = [heap EXCEPT ![wref[w]] = r.msg]
          /\ IF r.err
             THEN /\ werr' = [werr EXCEPT ![w] = TRUE]
                  /\ wpc' = [wpc EXCEPT ![w] = "done"]
                  /\ UNCHANGED widx
             ELSE /\ widx' = [widx EXCEPT ![w] = @ + 1]
                  /\ UNCHANGED << werr, wpc >>
    /\ UNCHANGED << logger, caller, family, objects, pc, batch, mpc, calls, wref, written, shouldExit >>

\* After the chain: the level filter, the mute test and the write to the sink.
OutputWriteFinish(w) ==
    /\ pc = "running"
    /\ wpc[w] = "chain"
    /\ widx[w] > Len(outputs[w[2]].processors)
    /\ LET m == heap[wref[w]]
           o == outputs[w[2]]
       IN IF PassesLevelFilter(m, o) /\ ~Muted(m)
          THEN /\ written' = [written EXCEPT ![w] = Append(@, m)]
               /\ werr' = [werr EXCEPT ![w] = o.sinkFails]
          ELSE UNCHANGED << written, werr >>
    /\ wpc' = [wpc EXCEPT ![w] = "done"]
    /\ UNCHANGED << logger, caller, family, objects, pc, batch, heap, mpc, calls, wref, widx, shouldExit >>

\* processOutputs returns to the message worker, which records a fatal level
\* and returns.
MsgFinish(i) ==
    /\ pc = "running"
    /\ mpc[i] = "wait"
    /\ ProcessOutputsWait(i)
    /\ shouldExit' = (shouldExit \/ heap[OriginalRef(i)].level = Fatal)
    /\ mpc' = [mpc EXCEPT ![i] = "done"]
    /\ UNCHANGED << logger, caller, family, objects, pc, batch, heap, calls, wref, wpc, widx, werr, written >>

\* process passes g.Wait(): os.Exit(1) if shouldExit, a normal return otherwise.
ProcessFinish ==
    /\ pc = "running"
    /\ ProcessWait
    /\ pc' = IF shouldExit THEN "exited" ELSE "returned"
    /\ UNCHANGED << logger, caller, family, objects, batch, heap, mpc, calls, wref, wpc, widx, werr, written,
                    shouldExit >>

Next ==
    \/ AddOutputs
    \/ SetStatus
    \/ PrintWithOptions
    \/ PrintMessage
    \/ PrintMessagesToOutputs
    \/ \E i \in 1..Len(batch) : MsgStart(i)
    \/ \E w \in Workers : OutputWriteBegin(w)
    \/ \E w \in Workers : OutputRunProcessor(w)
    \/ \E w \in Workers : OutputWriteFinish(w)
    \/ \E i \in 1..Len(batch) : MsgFinish(i)
    \/ ProcessFinish

Spec == Init /\ [][Next]_vars

----------------------------------------------------------------------------
\* The logger with global fields and tags, and the convenient printers.

\* Bound of the number of global tags.
MaxTags == 1

\* WithFields(fields)
WithFields(flds, m) == [m EXCEPT !.fields = flds]

\* WithTags(tags...)
WithTags(tgs, m) == AddTags(m, tgs)

\* options.New(), and the Options a caller builds from it. FieldsNil tells a
\* nil Fields map from an empty one.
NewOptions ==
    [ FieldsNil |-> FALSE, Fields |-> {}, Flag |-> "None", OutputsNames |-> <<>>,
      ProcessorsNames |-> <<>>, Tags |-> <<>> ]

\* mergeOptions(m, o)
mergeOptions(m, o) ==
    LET m1 == IF ~o.FieldsNil THEN [m EXCEPT !.fields = o.Fields] ELSE m
        m2 == IF o.Flag # "None" THEN [m1 EXCEPT !.flag = o.Flag] ELSE m1
        m3 == IF Len(o.OutputsNames) > 0
              THEN [m2 EXCEPT !.outputsNames = o.OutputsNames] ELSE m2
        m4 == IF Len(o.ProcessorsNames) > 0
              THEN [m3 EXCEPT !.processorsNames = o.ProcessorsNames] ELSE m3
    IN IF Len(o.Tags) > 0 THEN AddTags([m4 EXCEPT !.tags = o.Tags], o.Tags) ELSE m4

\* The outputs given to the factory: New("s", a, ab).
PrinterOutputs ==
    << NewOutput(<<"a">>, Error, FALSE,
                 <<Processor("Prefixer", <<"X","-">>, <<>>),
                   Processor("Prefixer", <<"Y","-">>, <<>>)>>),
       NewOutput(<<"a","b">>, Trace, FALSE,
                 <<Processor("Tagger", <<"t">>, <<>>)>>) >>

\* Values of the SYPL_FILTER environment variable: unset, "x", "xs", "s,x".
PrinterFilters == { <<>>, <<"x">>, <<"x","s">>, <<"s",",","x">> }

\* The global fields a caller sets, and the fields a caller gives a message.
GlobalFields == { <<"env", "prod">> }
MessageFields == { {}, { <<"env", "staging">>, <<"req", "abc">> } }

\* The content of the messages, and the text PrintPretty makes of its data.
Msg == <<"m","s","g">>
PrettyText == <<"{","}">>
NewLine == <<"\n">>

\* The Options values handed to PrintMessagesToOutputsWithOptions.
OptionsValues ==
    { NewOptions,
      [NewOptions EXCEPT !.OutputsNames = << <<"a","b">> >>],
      [NewOptions EXCEPT !.Flag = "Skip", !.Tags = << <<"o">> >>,
                         !.Fields = { <<"req", "abc">> }] }

\* The MessageToOutput tuples handed to PrintMessagesToOutputsWithOptions.
PinnedMessages ==
    { [Content |-> Msg, Level |-> Error, OutputName |-> <<"a">>],
      [Content |-> Msg, Level |-> Info, OutputName |-> <<"z">>] }

\* SetFields(fields)
SetFields ==
    /\ pc = "idle"
    /\ fields' = GlobalFields
    /\ UNCHANGED << outputs, filterEnv, tags, run, caller, family, objects >>

\* SetTags(tags...)
SetTags ==
    /\ pc = "idle"
    /\ Len(tags) < MaxTags
    /\ tags' = tags \o << <<"g">> >>
    /\ UNCHANGED << outputs, filterEnv, fields, run, caller, family, objects >>

\* PrintWithOptions(l, ct, WithFields(flds), WithTags(tgs...))
PrintWithFieldsAndTags ==
    \E flds \in MessageFields, tgs \in { <<>>, << <<"p">> >> } :
        dispatch(ParentName, [op |-> "PrintWithOptions", mtos |-> <<>>],
                 << WithTags(tgs, WithFields(flds, NewMessage(Error, Msg))) >>)

\* The message of PrintPretty without msg.SetFlag(flag.Skip).
PrettyMessage_NoFlag(l) == NewMessage(l, PrettyText)

\* The message PrintPretty builds: message.New, then msg.SetFlag(flag.Skip).
PrettyMessage(l) == [NewMessage(l, PrettyText) EXCEPT !.flag = "Skip"]

\* PrintPretty(l, data)
PrintPretty ==
    \E l \in {Error, Info} :
        dispatch(ParentName, [op |-> "PrintPretty", mtos |-> <<>>],
                 << PrettyMessage(l) >>)

\* The message of PrintNewLine flagged Skip instead of SkipAndForce.
NewLineMessage_Skip == [NewMessage(Info, NewLine) EXCEPT !.flag = "Skip"]

\* The message PrintNewLine builds: message.New(level.Info, "\n"), then
\* m.SetFlag(flag.SkipAndForce).
NewLineMessage == [NewMessage(Info, NewLine) EXCEPT !.flag = "SkipAndForce"]

\* PrintNewLine()
PrintNewLine ==
    dispatch(ParentName, [op |-> "PrintNewLine", mtos |-> <<>>],
             << NewLineMessage >>)

\* PrintMessagesToOutputsWithOptions(o, messagesToOutputs...)
PrintMessagesToOutputsWithOptions ==
    \E o \in OptionsValues, mtos \in SeqsUpTo(PinnedMessages, MaxBatch) :
        dispatch(ParentName,
                 [op |-> "PrintMessagesToOutputsWithOptions", mtos |-> mtos],
                 [j \in 1..Len(mtos) |->
                     mergeOptions([NewMessage(mtos[j].Level, mtos[j].Content)
                                      EXCEPT !.outputsNames = <<mtos[j].OutputName>>],
                                  o)])

\* The print operation returns to its caller, which may call again.
CallReturns ==
    /\ pc = "returned"
    /\ pc' = "idle"
    /\ batch' = <<>>
    /\ heap' = <<>>
    /\ mpc' = <<>>
    /\ calls' = <<>>
    /\ wref' = <<>>
    /\ wpc' = <<>>
    /\ widx' = <<>>
    /\ werr' = <<>>
    /\ written' = <<>>
    /\ shouldExit' = FALSE
    /\ cur' = ParentName
    /\ request' = NoRequest
    /\ UNCHANGED << logger, family, objects >>

\* New("s", a, ab): two outputs, empty fields and tags; the environment is any.
InitPrinters ==
    /\ outputs = PrinterOutputs
    /\ filterEnv \in PrinterFilters
    /\ fields = {}
    /\ tags = <<>>
    /\ pc = "idle"
    /\ batch = <<>>
    /\ heap = <<>>
    /\ mpc = <<>>
    /\ calls = <<>>
    /\ wref = <<>>
    /\ wpc = <<>>
    /\ widx = <<>>
    /\ werr = <<>>
    /\ written = <<>>
    /\ shouldExit = FALSE
    /\ cur = ParentName
    /\ request = NoRequest
    /\ children = <<>>
    /\ lastMut = NoMutation
    /\ status = "Enabled"
    /\ sypls = <<>>
    /\ arrays = <<>>
    /\ maps = <<>>
    /\ expect = <<>>
    /\ held = NoMessage
    /\ built = NoMessage

NextPrinters ==
    \/ SetStatus
    \/ SetFields
    \/ SetTags
    \/ PrintWithFieldsAndTags
    \/ PrintPretty
    \/ PrintNewLine
    \/ PrintMessagesToOutputsWithOptions
    \/ \E i \in 1..Len(batch) : MsgStart(i)
    \/ \E w \in Workers : OutputWriteBegin(w)
    \/ \E w \in Workers : OutputRunProcessor(w)
    \/ \E w \in Workers : OutputWriteFinish(w)
    \/ \E i \in 1..Len(batch) : MsgFinish(i)
    \/ ProcessFinish
    \/ CallReturns

SpecPrinters == InitPrinters /\ [][NextPrinters]_vars

----------------------------------------------------------------------------
\* Child loggers. An output instance is designated by its index in outputs,
\* the slice of the logger the factory made; a child holds a slice of such
\* indexes.

\* Bound of the number of child loggers.
MaxChildren == 1

\* The names given to Sypl.New(name).
ChildNames == { <<"c">> }

\* The loggers: 0 is the logger the factory made, j > 0 is the j-th child.
Loggers == 0..Len(children)

\* Sypl.Name of a logger.
NameOf(x) == IF x = 0 THEN ParentName ELSE children[x].name

\* A child made with copies of the outputs: it holds no instance of the parent.
ChildOutputs_Copies == <<>>

\* The slice Sypl.New(name) gives the child: New(name, sypl.outputs...) hands
\* over the parent's slice, so the same instances.
ChildOutputs == [k \in 1..Len(outputs) |-> k]

\* GetOutputs() of a logger, as the set of the instances it holds.
InstancesOf(x) ==
    IF x = 0 THEN 1..Len(outputs)
    ELSE {children[x].outputs[k] : k \in 1..Len(children[x].outputs)}

\* child := sypl.New(name)
NewChild ==
    /\ pc = "idle"
    /\ Len(children) < MaxChildren
    /\ \E n \in ChildNames :
          children' = Append(children, [name |-> n, outputs |-> ChildOutputs])
    /\ UNCHANGED << logger, run, caller, lastMut, objects >>

\* SetMaxLevel(l) on the logger x: output.SetMaxLevel(l) for each of its outputs.
SetMaxLevel ==
    /\ pc = "idle"
    /\ \E x \in Loggers, l \in {Fatal, Debug} :
          /\ outputs' = [k \in 1..Len(outputs) |->
                            IF k \in InstancesOf(x)
                            THEN [outputs[k] EXCEPT !.maxLevel = l] ELSE outputs[k]]
          /\ lastMut' = [by |-> NameOf(x), kind |-> "SetMaxLevel", level |-> l,
                         index |-> 0]
    /\ UNCHANGED << filterEnv, fields, tags, run, caller, children, objects >>

\* GetOutput(name).SetStatus(status.Disabled) on the logger x.
DisableOutput ==
    /\ pc = "idle"
    /\ \E x \in Loggers :
          \E k \in InstancesOf(x) :
              /\ outputs[k].status = "Enabled"
              /\ outputs' = [outputs EXCEPT ![k].status = "Disabled"]
              /\ lastMut' = [by |-> NameOf(x), kind |-> "SetStatus", level |-> None,
                             index |-> k]
    /\ UNCHANGED << filterEnv, fields, tags, run, caller, children, objects >>

\* Print(l, "msg") on the logger x.
PrintAtLevel ==
    \E x \in Loggers, l \in {Error, Info, Trace} :
        dispatch(NameOf(x), [op |-> "Print", mtos |-> <<>>], << NewMessage(l, Msg) >>)

\* New("s", a, ab), without component filter.
InitFamily == InitPrinters /\ filterEnv = <<>>

NextFamily ==
    \/ NewChild
    \/ SetMaxLevel
    \/ DisableOutput
    \/ PrintAtLevel
    \/ \E i \in 1..Len(batch) : MsgStart(i)
    \/ \E w \in Workers : OutputWriteBegin(w)
    \/ \E w \in Workers : OutputRunProcessor(w)
    \/ \E w \in Workers : OutputWriteFinish(w)
    \/ \E i \in 1..Len(batch) : MsgFinish(i)
    \/ ProcessFinish
    \/ CallReturns

SpecFamily == InitFamily /\ [][NextFamily]_vars

----------------------------------------------------------------------------
\* The status of the logger itself.

\* sypl.SetStatus(s) on the logger the factory made.
SetSyplStatus ==
    /\ pc = "idle"
    /\ \E s \in Statuses : s # status /\ status' = s
    /\ UNCHANGED << logger, run, caller, family, sypls, arrays, maps, expect,
                    held, built >>

\* sypl.GetStatus()
GetStatus == status

NextStatus ==
    \/ SetSyplStatus
    \/ DisableOutput
    \/ PrintAtLevel
    \/ \E i \in 1..Len(batch) : MsgStart(i)
    \/ \E w \in Workers : OutputWriteBegin(w)
    \/ \E w \in Workers : OutputRunProcessor(w)
    \/ \E w \in Workers : OutputWriteFinish(w)
    \/ \E i \in 1..Len(batch) : MsgFinish(i)
    \/ ProcessFinish
    \/ CallReturns

\* New("s", a, ab), without component filter, then the operations above.
SpecStatus == InitFamily /\ [][NextStatus]_vars

----------------------------------------------------------------------------
\* The logger of NewDefault.

\* output.Console(maxLevel, processors...)
Console(maxLevel, processors) ==
    NewOutput(<<"C","o","n","s","o","l","e">>, maxLevel, FALSE, processors)

\* output.StdErr(processors...): PrintOnlyAtLevel(Fatal, Error) is appended to
\* the processors, the maxLevel is Error.
StdErr(processors) ==
    NewOutput(<<"S","t","d","E","r","r">>, Error, FALSE,
              Append(processors,
                     Processor("PrintOnlyAtLevel", <<>>, <<Fatal, Error>>)))

\* The outputs of NewDefault(name, maxLevel, processors...): Console with
\* MuteBasedOnLevel(Fatal, Error) appended to the processors, and StdErr.
NewDefault(maxLevel, processors) ==
    << Console(maxLevel,
               Append(processors,
                      Processor("MuteBasedOnLevel", <<>>, <<Fatal, Error>>))),
       StdErr(processors) >>

\* The maxLevel and the processors a caller gives to NewDefault.
DefaultMaxLevels == {Info, Trace}
DefaultProcessors == { <<>>, <<Processor("Prefixer", <<"X","-">>, <<>>)>> }

\* PrintWithOptions(l, "msg", WithFlag(f)): every level, every flag.
PrintFlagged ==
    \E l \in Levels, f \in Flags :
        dispatch(ParentName, [op |-> "PrintWithOptions", mtos |-> <<>>],
                 << WithFlag(f, NewMessage(l, Msg)) >>)

\* NewDefault("s", maxLevel, processors...), without component filter.
InitDefault ==
    /\ \E l \in DefaultMaxLevels, procs \in DefaultProcessors :
          outputs = NewDefault(l, procs)
    /\ filterEnv = <<>>
    /\ fields = {}
    /\ tags = <<>>
    /\ pc = "idle"
    /\ batch = <<>>
    /\ heap = <<>>
    /\ mpc = <<>>
    /\ calls = <<>>
    /\ wref = <<>>
    /\ wpc = <<>>
    /\ widx = <<>>
    /\ werr = <<>>
    /\ written = <<>>
    /\ shouldExit = FALSE
    /\ cur = ParentName
    /\ request = NoRequest
    /\ children = <<>>
    /\ lastMut = NoMutation
    /\ status = "Enabled"
    /\ sypls = <<>>
    /\ arrays = <<>>
    /\ maps = <<>>
    /\ expect = <<>>
    /\ held = NoMessage
    /\ built = NoMessage

NextDefault ==
    \/ PrintFlagged
    \/ PrintPretty
    \/ PrintNewLine
    \/ \E i \in 1..Len(batch) : MsgStart(i)
    \/ \E w \in Workers : OutputWriteBegin(w)
    \/ \E w \in Workers : OutputRunProcessor(w)
    \/ \E w \in Workers : OutputWriteFinish(w)
    \/ \E i \in 1..Len(batch) : MsgFinish(i)
    \/ ProcessFinish
    \/ CallReturns

SpecDefault == InitDefault /\ [][NextDefault]_vars

----------------------------------------------------------------------------
\* Lookups of an output by its name.

\* The letter a letter folds to (unicode.SimpleFold, for the letters used).
FoldLetter(c) ==
    CASE c = "A" -> "a"
      [] c = "B" -> "b"
      [] OTHER -> c

\* strings.EqualFold(s, t)
EqualFold(s, t) ==
    /\ Len(s) = Len(t)
    /\ \A j \in 1..Len(s) : FoldLetter(s[j]) = FoldLetter(t[j])

\* GetOutput(name): the index of the first output whose name matches, 0 for nil.
GetOutput(name) ==
    IF \E k \in 1..Len(outputs) : EqualFold(outputs[k].name, name)
    THEN CHOOSE k \in 1..Len(outputs) :
            /\ EqualFold(outputs[k].name, name)
            /\ \A n \in 1..(k - 1) : ~EqualFold(outputs[n].name, name)
    ELSE 0

RECURSIVE SetOutputsOf(_, _)
\* The slice after SetOutputs(news...): for each given output in turn, every
\* element whose name matches is replaced by it.
SetOutputsOf(outs, news) ==
    IF Len(news) = 0 THEN outs
    ELSE SetOutputsOf(
            [i \in 1..Len(outs) |->
                IF EqualFold(outs[i].name, Head(news).name) THEN Head(news)
                ELSE outs[i]],
            Tail(news))

\* The outputs a caller hands to SetOutputs.
ReplacementOutputs ==
    { NewOutput(<<"A">>, Trace, FALSE, <<>>),
      NewOutput(<<"a","b">>, Error, FALSE, <<>>),
      NewOutput(<<"z">>, Trace, FALSE, <<>>) }

\* The names a caller looks up or lists: "a", "A", "AB", "ab", "z".
LookupNames == { <<"a">>, <<"A">>, <<"A","B">>, <<"a","b">>, <<"z">> }

\* SetOutputs(o)
SetOutputs ==
    /\ pc = "idle"
    /\ \E o \in ReplacementOutputs :
          /\ outputs' = SetOutputsOf(outputs, <<o>>)
          /\ outputs' # outputs
    /\ UNCHANGED << filterEnv, fields, tags, run, caller, family, objects >>

\* PrintWithOptions(level.Error, "msg", WithOutputsNames(name))
PrintToName ==
    \E n \in LookupNames :
        dispatch(ParentName, [op |-> "PrintWithOptions", mtos |-> <<>>],
                 << WithOutputsNames(<<n>>, NewMessage(Error, Msg)) >>)

NextLookup ==
    \/ SetOutputs
    \/ DisableOutput
    \/ PrintToName
    \/ \E i \in 1..Len(batch) : MsgStart(i)
    \/ \E w \in Workers : OutputWriteBegin(w)
    \/ \E w \in Workers : OutputRunProcessor(w)
    \/ \E w \in Workers : OutputWriteFinish(w)
    \/ \E i \in 1..Len(batch) : MsgFinish(i)
    \/ ProcessFinish
    \/ CallReturns

\* New("s", a, ab), without component filter, then the operations above.
SpecLookup == InitFamily /\ [][NextLookup]_vars

----------------------------------------------------------------------------
\* A pre-built message printed through two loggers, one after the other.

\* L1 := New("s", a, b) with global fields and a global tag, and
\* L2 := New("r", c, d) with nothing global.
ReprintLoggers ==
    << [ name |-> <<"s">>,
         outputs |-> << NewOutput(<<"a">>, Error, FALSE,
                                  <<Processor("Prefixer", <<"X","-">>, <<>>)>>),
                        NewOutput(<<"b">>, Trace, FALSE, <<>>) >>,
         fields |-> GlobalFields, tags |-> << <<"g">> >> ],
       [ name |-> <<"r">>,
         outputs |-> << NewOutput(<<"c">>, Trace, FALSE,
                                  <<Processor("Prefixer", <<"Z","-">>, <<>>)>>),
                        NewOutput(<<"d">>, Info, FALSE, <<>>) >>,
         fields |-> {}, tags |-> <<>> ] >>

\* The messages a caller builds with message.New, no outputsNames given.
HeldMessages ==
    { WithFields(flds, NewMessage(l, Msg)) :
        l \in {Error, Info, Debug}, flds \in MessageFields }

\* PrintMessage(m) through the logger x, m being the message the caller
\* holds: process works on that very message.
PrintHeld(x) ==
    /\ pc = "idle"
    /\ held.prints = x - 1
    /\ outputs' = ReprintLoggers[x].outputs
    /\ fields' = ReprintLoggers[x].fields
    /\ tags' = ReprintLoggers[x].tags
    /\ cur' = ReprintLoggers[x].name
    /\ request' = [op |-> "PrintMessage", mtos |-> <<>>]
    /\ pc' = "running"
    /\ batch' = << held.msg >>
    /\ heap' = (OriginalRef(1) :> held.msg)
    /\ mpc' = << "start" >>
    /\ calls' = [w \in {1} \X (1..Len(outputs')) |-> 0]
    /\ wref' = [w \in {1} \X (1..Len(outputs')) |-> OriginalRef(1)]
    /\ wpc' = [w \in {1} \X (1..Len(outputs')) |-> "none"]
    /\ widx' = [w \in {1} \X (1..Len(outputs')) |-> 1]
    /\ werr' = [w \in {1} \X (1..Len(outputs')) |-> FALSE]
    /\ written' = [w \in {1} \X (1..Len(outputs')) |-> <<>>]
    /\ shouldExit' = FALSE
    /\ UNCHANGED << filterEnv, family, status, sypls, arrays, maps, expect, held,
                    built >>

\* PrintMessage returns: the caller still holds the message, as process left it.
HeldReturns ==
    /\ pc = "returned"
    /\ held.prints < Len(ReprintLoggers)
    /\ pc' = "idle"
    /\ held' = [held EXCEPT !.msg = heap[OriginalRef(1)], !.prints = @ + 1]
    /\ UNCHANGED << logger, caller, family, status, sypls, arrays, maps, expect,
                    built, batch, heap, mpc, calls, wref, wpc, widx, werr, written,
                    shouldExit >>

\* The two loggers are made and the caller has built a message.
InitReprint ==
    /\ outputs = ReprintLoggers[1].outputs
    /\ filterEnv = <<>>
    /\ fields = ReprintLoggers[1].fields
    /\ tags = ReprintLoggers[1].tags
    /\ pc = "idle"
    /\ batch = <<>>
    /\ heap = <<>>
    /\ mpc = <<>>
    /\ calls = <<>>
    /\ wref = <<>>
    /\ wpc = <<>>
    /\ widx = <<>>
    /\ werr = <<>>
    /\ written = <<>>
    /\ shouldExit = FALSE
    /\ cur = ReprintLoggers[1].name
    /\ request = NoRequest
    /\ children = <<>>
    /\ lastMut = NoMutation
    /\ status = "Enabled"
    /\ sypls = <<>>
    /\ arrays = <<>>
    /\ maps = <<>>
    /\ expect = <<>>
    /\ \E m \in HeldMessages : held = [msg |-> m, prints |-> 0, asBuilt |-> m]
    /\ built = NoMessage

NextReprint ==
    \/ \E x \in 1..Len(ReprintLoggers) : PrintHeld(x)
    \/ HeldReturns
    \/ \E i \in 1..Len(batch) : MsgStart(i)
    \/ \E w \in Workers : OutputWriteBegin(w)
    \/ \E w \in Workers : OutputRunProcessor(w)
    \/ \E w \in Workers : OutputWriteFinish(w)
    \/ \E i \in 1..Len(batch) : MsgFinish(i)
    \/ ProcessFinish

SpecReprint == InitReprint /\ [][NextReprint]_vars

----------------------------------------------------------------------------
\* The functional options, applied to the message of a print one at a time.
\* A fields.Fields map is held by reference: maps[r] is the content of the
\* map r.

\* Bound of the number of options given to one print.
MaxOptions == 3

\* flds[key] = value
FieldsPut(flds, key, value) == {e \in flds : e[1] # key} \cup { <<key, value>> }

\* m.SetFields(fields) keeps the map it is given, m.GetFields() returns the map
\* the message holds: the reference the message holds after SetFields(r).
SetFieldsRef(r) == r

\* The key and the value a caller gives to WithField.
FieldEntries == { <<"env", "dev">>, <<"k", "v">> }

\* m := message.New(l, ct) at the start of PrintWithOptions: the message holds
\* a map of its own, the first of maps.
BuildMessage ==
    /\ pc = "idle"
    /\ built = NoMessage
    /\ maps' = << {} >>
    /\ built' = [ msg |-> NewMessage(Error, Msg), fieldsRef |-> 1,
                  applied |-> 0, callerRef |-> 0, asPassed |-> {},
                  fieldsDue |-> {} ]
    /\ UNCHANGED << logger, run, caller, family, status, sypls, arrays, expect,
                    held >>

\* m = WithFields(fields)(m), fields being a map the caller made.
ApplyWithFields ==
    /\ pc = "idle"
    /\ built # NoMessage /\ built.applied < MaxOptions /\ built.callerRef = 0
    /\ \E flds \in MessageFields \ { {} } :
          /\ maps' = Append(maps, flds)
          /\ built' = [built EXCEPT !.fieldsRef = SetFieldsRef(Len(maps) + 1),
                                    !.callerRef = Len(maps) + 1,
                                    !.asPassed = flds,
                                    !.fieldsDue = flds,
                                    !.applied = @ + 1]
    /\ UNCHANGED << logger, run, caller, family, status, sypls, arrays, expect,
                    held >>

\* m = WithField(key, value)(m): flds := m.GetFields(); flds[key] = value;
\* m.SetFields(flds).
ApplyWithField ==
    /\ pc = "idle"
    /\ built # NoMessage /\ built.applied < MaxOptions
    /\ \E e \in FieldEntries :
          LET flds == built.fieldsRef IN
          /\ maps' = [maps EXCEPT ![flds] = FieldsPut(@, e[1], e[2])]
          /\ built' = [built EXCEPT !.fieldsRef = SetFieldsRef(flds),
                                    !.fieldsDue = FieldsPut(@, e[1], e[2]),
                                    !.applied = @ + 1]
    /\ UNCHANGED << logger, run, caller, family, status, sypls, arrays, expect,
                    held >>

\* m = WithTags(tag)(m), WithFlag(f)(m) or WithOutputsNames(name)(m).
ApplyOtherOption ==
    /\ pc = "idle"
    /\ built # NoMessage /\ built.applied < MaxOptions
    /\ \E m \in { WithTags(<< <<"p">> >>, built.msg), WithFlag("Force", built.msg),
                  WithOutputsNames(<< <<"a">> >>, built.msg) } :
          /\ m # built.msg
          /\ built' = [built EXCEPT !.msg = m, !.applied = @ + 1]
    /\ UNCHANGED << logger, run, caller, family, status, sypls, arrays, maps,
                    expect, held >>

\* return sypl.PrintMessage(m), with the options applied.
PrintBuilt ==
    /\ built # NoMessage
    /\ dispatch(ParentName, [op |-> "PrintWithOptions", mtos |-> <<>>],
                << [built.msg EXCEPT !.fields = maps[built.fieldsRef]] >>)

\* PrintWithOptions returns; the caller still has the map it passed.
BuiltReturns ==
    /\ pc = "returned"
    /\ pc' = "idle"
    /\ built' = NoMessage
    /\ maps' = <<>>
    /\ cur' = ParentName
    /\ request' = NoRequest
    /\ UNCHANGED << logger, family, status, sypls, arrays, expect, held, batch,
                    heap, mpc, calls, wref, wpc, widx, werr, written, shouldExit >>

NextOptions ==
    \/ SetFields
    \/ BuildMessage
    \/ ApplyWithFields
    \/ ApplyWithField
    \/ ApplyOtherOption
    \/ PrintBuilt
    \/ \E i \in 1..Len(batch) : MsgStart(i)
    \/ \E w \in Workers : OutputWriteBegin(w)
    \/ \E w \in Workers : OutputRunProcessor(w)
    \/ \E w \in Workers : OutputWriteFinish(w)
    \/ \E i \in 1..Len(batch) : MsgFinish(i)
    \/ ProcessFinish
    \/ BuiltReturns

\* New("s", a, ab), without component filter, then prints with options.
SpecOptions == InitFamily /\ [][NextOptions]_vars

----------------------------------------------------------------------------
\* The Sypl structs with their fields as Go holds them: a slice is a
\* reference to a backing array with a length and a capacity, a map is a
\* reference. sypls[1] is the logger the factory made, the others are its
\* children.

\* Bound of the length of a slice.
MaxSliceLen == 4

\* A nil or empty slice: no backing array.
NilSlice == [arr |-> 0, len |-> 0, cap |-> 0]

\* The elements of a slice, in the heap h of backing arrays.
ElemsIn(h, s) == IF s.len = 0 THEN <<>> ELSE SubSeq(h[s.arr], 1, s.len)

\* The capacity append gives the new backing array when the old one is full:
\* the needed length if it is more than twice the old capacity, twice the old
\* capacity otherwise (small slices of two-word elements, no rounding).
GrowCap(oldCap, needed) == IF needed > 2 * oldCap THEN needed ELSE 2 * oldCap

\* The slice append(s, x) returns.
AppendSlice(s, x) ==
    IF s.len + 1 <= s.cap THEN [s EXCEPT !.len = @ + 1]
    ELSE [arr |-> Len(arrays) + 1, len |-> s.len + 1,
          cap |-> GrowCap(s.cap, s.len + 1)]

\* The backing arrays after append(s, x), zero being the zero value of the
\* elements: x is stored in place if the capacity allows, otherwise the
\* elements are copied to a new array.
AppendArrays(s, x, zero) ==
    IF s.len + 1 <= s.cap
    THEN [arrays EXCEPT ![s.arr][s.len + 1] = x]
    ELSE Append(arrays,
                [j \in 1..GrowCap(s.cap, s.len + 1) |->
                    IF j <= s.len THEN arrays[s.arr][j]
                    ELSE IF j = s.len + 1 THEN x ELSE zero])

\* The maps of the program: the one the factory makes (fields.Fields{}) and
\* two maps of the caller.
CallerMaps == << {}, { <<"env", "prod">> }, { <<"env", "dev">> } >>

\* The factory New(name, outputs...), the outputs given as the slice outs.
New(name, outs) ==
    [ name |-> name, defaultIoWriterLevel |-> None, fields |-> 1,
      outputs |-> outs, status |-> "Enabled", tags |-> NilSlice ]

\* The struct Sypl.New(name) returns: s := New(name, sypl.outputs...), then
\* the level, the fields, the status and the tags of the parent are assigned.
ChildOf(parent, name) ==
    [ New(name, parent.outputs) EXCEPT
        !.defaultIoWriterLevel = parent.defaultIoWriterLevel,
        !.fields = parent.fields,
        !.status = parent.status,
        !.tags = parent.tags ]

\* GetTags(), GetOutputs(), GetFields() of the struct x.
GetTags(x) == ElemsIn(arrays, sypls[x].tags)
GetOutputs(x) == ElemsIn(arrays, sypls[x].outputs)
GetFields(x) == maps[sypls[x].fields]

\* What the getters of a struct return.
Observed(x) ==
    [ tags |-> GetTags(x), outputs |-> GetOutputs(x), fields |-> GetFields(x),
      status |-> sypls[x].status, level |-> sypls[x].defaultIoWriterLevel ]

\* The zero values of a tag and of an output.
NoTag == <<>>
NoOutput == NewOutput(<<>>, None, FALSE, <<>>)

\* child := sypls[1].New(name)
SyplNew ==
    /\ Len(sypls) < 1 + MaxChildren
    /\ \E n \in ChildNames :
          /\ sypls' = Append(sypls, ChildOf(sypls[1], n))
          /\ expect' = Append(expect, Observed(1))
    /\ UNCHANGED << logger, run, caller, family, status, arrays, maps, held, built >>

\* sypls[x].SetTags(tag), the tag being the name of the logger.
SyplSetTags(x) ==
    /\ sypls[x].tags.len < MaxSliceLen
    /\ LET tag == sypls[x].name IN
          /\ arrays' = AppendArrays(sypls[x].tags, tag, NoTag)
          /\ sypls' = [sypls EXCEPT ![x].tags = AppendSlice(@, tag)]
          /\ expect' = [expect EXCEPT ![x].tags = Append(@, tag)]
    /\ UNCHANGED << logger, run, caller, family, status, maps, held, built >>

\* sypls[x].SetFields(fields), fields being a map of the caller.
SyplSetFields(x) ==
    /\ \E r \in 2..Len(CallerMaps) :
          /\ r # sypls[x].fields
          /\ sypls' = [sypls EXCEPT ![x].fields = r]
          /\ expect' = [expect EXCEPT ![x].fields = maps[r]]
    /\ UNCHANGED << logger, run, caller, family, status, arrays, maps, held, built >>

\* sypls[x].SetStatus(s)
SyplSetStatus(x) ==
    /\ \E s \in Statuses :
          /\ s # sypls[x].status
          /\ sypls' = [sypls EXCEPT ![x].status = s]
          /\ expect' = [expect EXCEPT ![x].status = s]
    /\ UNCHANGED << logger, run, caller, family, status, arrays, maps, held, built >>

\* sypls[x].SetDefaultIoWriterLevel(l)
SyplSetDefaultIoWriterLevel(x) ==
    /\ \E l \in {None, Info} :
          /\ l # sypls[x].defaultIoWriterLevel
          /\ sypls' = [sypls EXCEPT ![x].defaultIoWriterLevel = l]
          /\ expect' = [expect EXCEPT ![x].level = l]
    /\ UNCHANGED << logger, run, caller, family, status, arrays, maps, held, built >>

\* New("s"): no output, the fields an empty map of its own, no tag.
InitSypls ==
    /\ outputs = <<>>
    /\ filterEnv = <<>>
    /\ fields = {}
    /\ tags = <<>>
    /\ pc = "idle"
    /\ batch = <<>>
    /\ heap = <<>>
    /\ mpc = <<>>
    /\ calls = <<>>
    /\ wref = <<>>
    /\ wpc = <<>>
    /\ widx = <<>>
    /\ werr = <<>>
    /\ written = <<>>
    /\ shouldExit = FALSE
    /\ cur = ParentName
    /\ request = NoRequest
    /\ children = <<>>
    /\ lastMut = NoMutation
    /\ status = "Enabled"
    /\ sypls = << New(ParentName, NilSlice) >>
    /\ arrays = <<>>
    /\ maps = CallerMaps
    /\ expect = << [ tags |-> <<>>, outputs |-> <<>>, fields |-> {},
                     status |-> "Enabled", level |-> None ] >>
    /\ held = NoMessage
    /\ built = NoMessage

NextSnapshot ==
    \/ SyplNew
    \/ \E x \in 1..Len(sypls) : SyplSetTags(x)
    \/ \E x \in 1..Len(sypls) : SyplSetFields(x)
    \/ \E x \in 1..Len(sypls) : SyplSetStatus(x)
    \/ \E x \in 1..Len(sypls) : SyplSetDefaultIoWriterLevel(x)

\* A logger, its child, and the setters of their global state.
SpecSnapshot == InitSypls /\ [][NextSnapshot]_vars

\* The outputs a caller hands to AddOutputs on a Sypl struct.
AddableOutputs ==
    { NewOutput(<<"a">>, Trace, FALSE, <<>>), NewOutput(<<"b">>, Trace, FALSE, <<>>) }

\* sypls[x].AddOutputs(o): sypl.outputs = append(sypl.outputs, outputs...)
SyplAddOutputs(x) ==
    /\ sypls[x].outputs.len < MaxSliceLen
    /\ \E o \in AddableOutputs :
          /\ arrays' = AppendArrays(sypls[x].outputs, o, NoOutput)
          /\ sypls' = [sypls EXCEPT ![x].outputs = AppendSlice(@, o)]
          /\ expect' = [expect EXCEPT ![x].outputs = Append(@, o)]
    /\ UNCHANGED << logger, run, caller, family, status, maps, held, built >>

\* sypls[x].SetOutputs(o): every element of the slice whose name matches is
\* assigned, sypl.outputs[i] = output. What each struct is expected to hold is
\* taken anew from what it holds.
SyplSetOutputs(x) ==
    /\ \E o \in ReplacementOutputs :
          LET s == sypls[x].outputs IN
          /\ \E j \in 1..s.len : EqualFold(arrays[s.arr][j].name, o.name)
          /\ arrays' = [arrays EXCEPT ![s.arr] =
                          [j \in 1..Len(@) |->
                              IF j <= s.len /\ EqualFold(@[j].name, o.name)
                              THEN o ELSE @[j]]]
          /\ arrays' # arrays
          /\ expect' = [y \in 1..Len(sypls) |->
                          [expect[y] EXCEPT !.outputs =
                              ElemsIn(arrays', sypls[y].outputs)]]
    /\ UNCHANGED << logger, run, caller, family, status, sypls, maps, held, built >>

NextOutputs ==
    \/ SyplNew
    \/ \E x \in 1..Len(sypls) : SyplAddOutputs(x)
    \/ \E x \in 1..Len(sypls) : SyplSetOutputs(x)

\* A logger, its child, and the changes of their output sets.
SpecOutputs == InitSypls /\ [][NextOutputs]_vars

----------------------------------------------------------------------------
\* Vocabulary of the properties.

\* The call is over: process returned or exited the program.
Finished == pc \in {"returned", "exited"}

\* An output is targeted by a message as handed to process: its name is one of
\* the listed names, or the list is empty.
Targeted(o, m) == Len(m.outputsNames) = 0 \/ InSeq(o.name, m.outputsNames)

\* C1: with a non-empty outputsNames list, Write is invoked on an output if
\* and only if the output is enabled and its name is one of the listed names;
\* with an empty list every enabled output is written.
C1_AllowListRouting ==
    \A w \in Workers :
        LET m == batch[w[1]]
            o == outputs[w[2]]
        IN /\ calls[w] > 0 => o.status = "Enabled" /\ Targeted(o, m)
           /\ (Finished /\ ~Dropped(m) /\ o.status = "Enabled" /\ Targeted(o, m))
                 => calls[w] = 1

\* The order of the levels by name, least verbose first.
VerbosityOrder ==
    << <<"f","a","t","a","l">>, <<"e","r","r","o","r">>, <<"i","n","f","o">>,
       <<"w","a","r","n">>, <<"d","e","b","u","g">>, <<"t","r","a","c","e">> >>

\* The position of a level name in that order, 0 for any other name.
Verbosity(n) ==
    IF InSeq(n, VerbosityOrder)
    THEN CHOOSE j \in 1..Len(VerbosityOrder) : VerbosityOrder[j] = n
    ELSE 0

\* C2: a message that is not forced when the filter is evaluated reaches the
\* sink of an output only if its level is not None and is not more verbose
\* than the output's maxLevel, in the order Fatal < Error < Info < Warn <
\* Debug < Trace.
C2_LevelFilter ==
    \A w \in Workers : \A j \in 1..Len(written[w]) :
        LET m == written[w][j] IN
        m.flag \notin {"Force", "SkipAndForce"} =>
            /\ Verbosity(String(m.level)) > 0
            /\ Verbosity(String(m.level)) <= Verbosity(String(outputs[w[2]].maxLevel))

\* C2 witness: outputs A (maxLevel Info) and B (maxLevel Trace), a Debug print
\* without flag: B's sink has the message, A's sink has nothing.
C2_Witness ==
    /\ Finished
    /\ Len(outputs) = 2 /\ Len(batch) = 1
    /\ outputs[1].maxLevel = Info /\ outputs[2].maxLevel = Trace
    /\ batch[1].level = Debug /\ batch[1].flag = "None"
    /\ calls[<<1, 1>>] = 1 /\ calls[<<1, 2>>] = 1
    /\ written[<<1, 1>>] = <<>> /\ Len(written[<<1, 2>>]) = 1

\* Write was invoked for the worker and has returned.
WriteReturned(w) == calls[w] = 1 /\ wpc[w] = "done"

\* A processor of the chain returned an error: Write returned it before the
\* filter.
ChainFailed(w) == werr[w] /\ written[w] = <<>>

\* No processor of the output has one of the names.
ChainHasNo(o, procNames) ==
    \A j \in 1..Len(o.processors) : o.processors[j].name \notin procNames

\* The chain of o has a ForceBasedOnLevel listing the level of m, no muting
\* processor after it, and no failing processor.
ChainForces(o, m) ==
    /\ ~SkipsProcessors(m.flag)
    /\ ChainHasNo(o, {"ErrorSimulator"})
    /\ \E j \in 1..Len(o.processors) :
          /\ o.processors[j].name = "ForceBasedOnLevel"
          /\ InSeq(m.level, o.processors[j].levels)
          /\ \A n \in (j + 1)..Len(o.processors) :
                o.processors[n].name \notin {"MuteBasedOnLevel", "PrintOnlyAtLevel"}

\* The chain of o has a processor that mutes the level of m, and no
\* ForceBasedOnLevel after it.
ChainMutes(o, m) ==
    /\ ~SkipsProcessors(m.flag)
    /\ \E j \in 1..Len(o.processors) :
          /\ \/ /\ o.processors[j].name = "MuteBasedOnLevel"
                /\ InSeq(m.level, o.processors[j].levels)
             \/ /\ o.processors[j].name = "PrintOnlyAtLevel"
                /\ ~InSeq(m.level, o.processors[j].levels)
          /\ \A n \in (j + 1)..Len(o.processors) :
                o.processors[n].name # "ForceBasedOnLevel"

\* C3: a message whose flag is Force when the filter is evaluated, set by the
\* caller or by a ForceBasedOnLevel of the output's chain, is handed to the
\* sink of the output whatever its level and the output's maxLevel.
C3_Force ==
    \A w \in Workers :
        LET m == batch[w[1]]
            o == outputs[w[2]]
        IN WriteReturned(w) =>
            /\ (heap[wref[w]].flag = "Force" /\ ~ChainFailed(w)) => Len(written[w]) = 1
            /\ (m.flag = "Force"
                  /\ ChainHasNo(o, {"MuteBasedOnLevel", "PrintOnlyAtLevel", "ErrorSimulator"}))
                  => Len(written[w]) = 1
            /\ ChainForces(o, m) => Len(written[w]) = 1

\* C3 witness: a Debug message printed without flag was written by an output
\* of maxLevel Warn, whose ForceBasedOnLevel(Debug) forced it.
C3_Witness ==
    \E w \in Workers :
        /\ WriteReturned(w)
        /\ batch[w[1]].flag = "None" /\ batch[w[1]].level = Debug
        /\ outputs[w[2]].maxLevel = Warn
        /\ Len(written[w]) = 1 /\ written[w][1].flag = "Force"

\* C4: a message whose flag is Mute at the end of an output's chain, set by
\* the caller or by MuteBasedOnLevel / PrintOnlyAtLevel, is never handed to
\* the sink of that output.
C4_Mute ==
    \A w \in Workers :
        LET m == batch[w[1]]
            o == outputs[w[2]]
        IN /\ \A j \in 1..Len(written[w]) : written[w][j].flag # "Mute"
           /\ (calls[w] = 1 /\ m.flag = "Mute" /\ ChainHasNo(o, {"ForceBasedOnLevel"}))
                 => written[w] = <<>>
           /\ (calls[w] = 1 /\ ChainMutes(o, m)) => written[w] = <<>>

\* C4 witness: an Info message printed without flag went through an output of
\* maxLevel Trace whose MuteBasedOnLevel(Info, Warn) muted it: nothing written.
C4_Witness ==
    \E w \in Workers :
        /\ WriteReturned(w) /\ ~werr[w]
        /\ batch[w[1]].flag = "None" /\ batch[w[1]].level = Info
        /\ outputs[w[2]].maxLevel = Trace
        /\ heap[wref[w]].flag = "Mute"
        /\ written[w] = <<>>

RECURSIVE ApplyFirst(_, _, _)
\* The message after the first n processors of a chain ran on m, in order,
\* with nothing else touching it.
ApplyFirst(procs, n, m) ==
    IF n = 0 THEN m ELSE Run(procs[n], ApplyFirst(procs, n - 1, m)).msg

\* The message output k starts from: the merged message of the call, stamped
\* with the names of the logger and of the output.
Stamped(i, k) ==
    [Merged(batch[i]) EXCEPT !.componentName = LoggerName,
                             !.outputName = outputs[k].name]

\* What the message of worker w is if only the chain of its own output ever
\* touched it: the chain applied, as far as it ran, to the stamped message.
OwnChainOnly(w) ==
    LET start == Stamped(w[1], w[2])
        procs == outputs[w[2]].processors
    IN IF SkipsProcessors(start.flag) THEN start
       ELSE ApplyFirst(procs, IF ChainFailed(w) THEN widx[w] ELSE widx[w] - 1, start)

\* C5: during the fan-out each output's chain works on its own copy: at every
\* step of every interleaving the message of a worker is what its own chain
\* alone makes of it, what is written is that message, no two workers share a
\* message, and the message of the call is not touched by any chain.
C5_PerOutputIsolation ==
    /\ \A w \in Workers : wpc[w] # "none" =>
          /\ heap[wref[w]] = OwnChainOnly(w)
          /\ \A j \in 1..Len(written[w]) : written[w][j] = OwnChainOnly(w)
          /\ wref[w] # OriginalRef(w[1])
          /\ \A v \in Workers : (v # w /\ wpc[v] # "none") => wref[v] # wref[w]
    /\ \A i \in 1..Len(batch) :
          mpc[i] = "wait" => heap[OriginalRef(i)] = Merged(batch[i])

\* C5 witness: one message went through two outputs whose chains both changed
\* it (a prefix in one, a tag in the other); each wrote its own message, and
\* neither change is in the other's message.
C5_Witness ==
    /\ Finished /\ Len(outputs) = 2
    /\ \E i \in 1..Len(batch) :
          LET a == heap[wref[<<i, 1>>]]
              b == heap[wref[<<i, 2>>]]
          IN /\ calls[<<i, 1>>] = 1 /\ calls[<<i, 2>>] = 1
             /\ a.processed # batch[i].original /\ a.tags = batch[i].tags
             /\ b.tags # batch[i].tags /\ b.processed = batch[i].original
             /\ Len(written[<<i, 1>>]) = 1 /\ Len(written[<<i, 2>>]) = 1

\* Message i of the batch is not dropped, and output k is enabled and targeted
\* by it: the pair for which a Write is due.
WriteDue(i, k) ==
    /\ ~Dropped(batch[i])
    /\ outputs[k].status = "Enabled"
    /\ Targeted(outputs[k], batch[i])

\* The Write of worker w is launched and has not returned.
WritePending(w) == wpc[w] \in {"launched", "chain"}

\* C6: when the Write of one output has returned an error (of a processor or
\* of the sink), Write is still invoked, and returns, for every other enabled
\* targeted output of the message and for every other message of the batch;
\* the error is discarded: the call returns normally, and the process exits
\* only for a Fatal message.
C6_FailureIsolation ==
    (Finished /\ \E w \in Workers : werr[w]) =>
        /\ \A w \in Workers : WriteDue(w[1], w[2]) => WriteReturned(w)
        /\ pc = "exited" => \E i \in 1..Len(batch) : batch[i].level = Fatal

\* C6 witness: a call with two messages and two outputs returned normally; for
\* each message the Write of one output returned an error and the other
\* output wrote the message.
C6_Witness ==
    /\ pc = "returned" /\ Len(batch) = 2 /\ Len(outputs) = 2
    /\ \A i \in 1..2 :
          \E k \in 1..2 :
              /\ werr[<<i, k>>] /\ calls[<<i, k>>] = 1
              /\ ~werr[<<i, 3 - k>>] /\ calls[<<i, 3 - k>>] = 1
              /\ Len(written[<<i, 3 - k>>]) = 1

\* C7: a print call returns to its caller only after every message worker and
\* every Write launched for the call has returned.
C7_SynchronousBarrier ==
    pc = "returned" =>
        /\ \A i \in 1..Len(batch) : mpc[i] = "done"
        /\ \A w \in Workers : ~WritePending(w)

\* C7 witness: a call with two messages and two outputs has returned, the four
\* Writes having been invoked and having returned.
C7_Witness ==
    /\ pc = "returned" /\ Len(batch) = 2 /\ Len(outputs) = 2
    /\ \A w \in Workers : WriteReturned(w)

\* C8: every print call whose batch contains a message at level Fatal ends
\* with the exit of the process, never with a return to the caller.
C8_FatalAlwaysExits ==
    pc = "returned" => \A i \in 1..Len(batch) : batch[i].level # Fatal

\* C9: with a Fatal message in the batch, the process does not exit before
\* every Write of every message of the batch, fatal or not, has returned.
C9_ExitOrdering ==
    pc = "exited" =>
        /\ \A w \in Workers : WriteDue(w[1], w[2]) => WriteReturned(w)
        /\ \A w \in Workers : ~WritePending(w)

\* C9 witness: the process exited after a call with a Fatal and a non-Fatal
\* message through two outputs; the four Writes had returned, and the
\* non-Fatal message had been written.
C9_Witness ==
    /\ pc = "exited" /\ Len(batch) = 2 /\ Len(outputs) = 2
    /\ \A w \in Workers : WriteReturned(w)
    /\ \E i \in 1..2 :
          /\ batch[i].level = Fatal /\ batch[3 - i].level # Fatal
          /\ \E k \in 1..2 : Len(written[<<3 - i, k>>]) = 1

\* C10: for a call with N messages, none dropped, through K enabled outputs
\* all targeted, Write is invoked exactly N*K times: exactly once per pair of
\* message and output, each time on a message of its own.
C10_FanOutCount ==
    (Finished /\ \A w \in Workers : WriteDue(w[1], w[2])) =>
        /\ \A w \in Workers : calls[w] = 1
        /\ Cardinality({w \in Workers : calls[w] = 1}) = Len(batch) * Len(outputs)
        /\ Cardinality({wref[w] : w \in Workers}
                         \cup {OriginalRef(i) : i \in 1..Len(batch)})
              = Len(batch) * Len(outputs) + Len(batch)

\* C10 witness: a call with two messages through two enabled outputs, all
\* targeted by default, has finished with four Writes.
C10_Witness ==
    /\ Finished /\ Len(batch) = 2 /\ Len(outputs) = 2
    /\ \A i \in 1..2 : batch[i].outputsNames = <<>> /\ ~Dropped(batch[i])
    /\ \A k \in 1..2 : outputs[k].status = "Enabled"
    /\ \A w \in Workers : calls[w] = 1

\* C14: printing a message whose original content is empty and whose flag is
\* SkipAndMute causes no Write invocation on any output, at every level.
C14_EmptySkipAndMuteNoOp ==
    \A w \in Workers :
        (batch[w[1]].original = <<>> /\ batch[w[1]].flag = "SkipAndMute") =>
            /\ calls[w] = 0
            /\ wpc[w] = "none"
            /\ written[w] = <<>>

\* C14 witness: a call with an empty SkipAndMute message at level Error is
\* over, on a logger with two enabled outputs and no component filter, and no
\* Write was invoked.
C14_Witness ==
    /\ Finished /\ filterEnv = <<>> /\ Len(batch) = 1 /\ Len(outputs) = 2
    /\ batch[1].original = <<>> /\ batch[1].flag = "SkipAndMute"
    /\ batch[1].level = Error
    /\ \A k \in 1..2 : outputs[k].status = "Enabled" /\ calls[<<1, k>>] = 0

\* C18: every tuple of PrintMessagesToOutputs is written to at most one
\* output, the enabled output whose name is the tuple's OutputName, and to no
\* output when no registered output has that name.
C18_TuplePinnedToOneOutput ==
    request.op = "PrintMessagesToOutputs" =>
        \A i \in 1..Len(batch) :
            /\ \A k \in 1..Len(outputs) :
                  written[<<i, k>>] # <<>> =>
                      /\ outputs[k].name = request.mtos[i].OutputName
                      /\ outputs[k].status = "Enabled"
            /\ Cardinality({k \in 1..Len(outputs) : written[<<i, k>>] # <<>>}) <= 1

\* The keys of a field set, and the value a field set gives a key.
FieldKeys(f) == {e[1] : e \in f}
FieldValue(f, k) == CHOOSE v \in {e[2] : e \in f} : <<k, v>> \in f

\* The union of the global fields g and the message fields mf, the message's
\* value winning for a key of both.
FieldsUnion(g, mf) ==
    {<<k, IF k \in FieldKeys(mf) THEN FieldValue(mf, k) ELSE FieldValue(g, k)>> :
        k \in FieldKeys(g) \cup FieldKeys(mf)}

\* C11: the fields every output sees for a printed message, and the fields of
\* what it writes, are the union of the logger's global fields and of the
\* message's own fields, the message's value winning for a key of both.
C11_FieldMerge ==
    \A w \in Workers :
        wpc[w] # "none" =>
            /\ heap[wref[w]].fields = FieldsUnion(fields, batch[w[1]].fields)
            /\ \A j \in 1..Len(written[w]) :
                  written[w][j].fields = FieldsUnion(fields, batch[w[1]].fields)

\* C11 witness: with the global field env:prod, a message with the fields
\* env:staging and req:abc was written by both outputs with exactly the
\* fields env:staging and req:abc.
C11_Witness ==
    /\ Finished /\ Len(batch) = 1
    /\ fields = { <<"env", "prod">> }
    /\ batch[1].fields = { <<"env", "staging">>, <<"req", "abc">> }
    /\ \A k \in 1..Len(outputs) :
          /\ Len(written[<<1, k>>]) = 1
          /\ written[<<1, k>>][1].fields = { <<"env", "staging">>, <<"req", "abc">> }

\* C12: printing leaves the global state of the logger unchanged: no step of
\* a print call, from the call of the print operation to its return, changes
\* the global fields or the global tags the logger stores.
C12_PrintingLeavesGlobalState ==
    [][(pc # "idle" \/ pc' # "idle") => (fields' = fields /\ tags' = tags)]_vars

\* C12 witness: a message with fields and a tag of its own was printed
\* through a logger that has a global field and a global tag; the outputs
\* wrote the merged fields and tags, and the logger holds what it held.
C12_Witness ==
    /\ Finished /\ Len(batch) = 1
    /\ fields = { <<"env", "prod">> } /\ tags = << <<"g">> >>
    /\ batch[1].fields = { <<"env", "staging">>, <<"req", "abc">> }
    /\ batch[1].tags = << <<"p">> >>
    /\ \A k \in 1..Len(outputs) :
          /\ Len(written[<<1, k>>]) = 1
          /\ written[<<1, k>>][1].fields = { <<"env", "staging">>, <<"req", "abc">> }
          /\ InSeq(<<"g">>, written[<<1, k>>][1].tags)
          /\ InSeq(<<"p">>, written[<<1, k>>][1].tags)

RECURSIVE PrefixesOf(_, _)
\* The prefixes of the first n processors of a chain of Prefixers, the last
\* one first.
PrefixesOf(procs, n) ==
    IF n = 0 THEN <<>> ELSE procs[n].str \o PrefixesOf(procs, n - 1)

\* C13: the processors of an output's chain run one after the other in
\* registration order on the output's message, each on the result of the one
\* before: through a chain of Prefixers the content is, after n of them ran,
\* the original content preceded by their prefixes, the last one first, and
\* this is the content written ("Y-X-msg" for the chain X-, Y- and "msg").
C13_ProcessorOrder ==
    \A w \in Workers :
        LET procs == outputs[w[2]].processors
            m == batch[w[1]]
        IN (/\ wpc[w] \in {"chain", "done"}
            /\ ~SkipsProcessors(m.flag)
            /\ \A j \in 1..Len(procs) : procs[j].name = "Prefixer") =>
               /\ heap[wref[w]].processed = PrefixesOf(procs, widx[w] - 1) \o m.original
               /\ \A j \in 1..Len(written[w]) :
                     written[w][j].processed = PrefixesOf(procs, Len(procs)) \o m.original

\* C13 witness: the output with the chain Prefixer("X-"), Prefixer("Y-") wrote
\* "Y-X-msg" for the content "msg".
C13_Witness ==
    \E w \in Workers :
        /\ WriteReturned(w)
        /\ Len(outputs[w[2]].processors) = 2
        /\ outputs[w[2]].processors[1].str = <<"X","-">>
        /\ outputs[w[2]].processors[2].str = <<"Y","-">>
        /\ batch[w[1]].original = <<"m","s","g">>
        /\ Len(written[w]) = 1
        /\ written[w][1].processed = <<"Y","-","X","-","m","s","g">>

\* C15: for a message flagged Skip, as PrintPretty produces, no processor of
\* any output runs on it, what is written is the raw original content, and
\* the level filter of the output still applies: it is written if and only
\* if its level is not more verbose than the output's maxLevel.
C15_Skip ==
    \A w \in Workers :
        LET m == batch[w[1]]
            o == outputs[w[2]]
        IN ((m.flag = "Skip" \/ request.op = "PrintPretty") /\ wpc[w] # "none") =>
              /\ heap[wref[w]].processed = m.original
              /\ heap[wref[w]].processorName = ""
              /\ heap[wref[w]].flag = "Skip"
              /\ ~InSeq(<<"t">>, heap[wref[w]].tags)
              /\ \A j \in 1..Len(written[w]) : written[w][j].processed = m.original
              /\ WriteReturned(w) =>
                    (Len(written[w]) = 1 <=>
                        /\ Verbosity(String(m.level)) > 0
                        /\ Verbosity(String(m.level)) <= Verbosity(String(o.maxLevel)))

\* C15 witness: PrintPretty at level Info went through both outputs: the one
\* of maxLevel Error wrote nothing, the one of maxLevel Trace, which has a
\* Tagger, wrote the raw text without tag.
C15_Witness ==
    /\ Finished /\ request.op = "PrintPretty" /\ batch[1].level = Info
    /\ outputs[1].maxLevel = Error /\ outputs[2].maxLevel = Trace
    /\ WriteReturned(<<1, 1>>) /\ written[<<1, 1>>] = <<>>
    /\ WriteReturned(<<1, 2>>) /\ Len(written[<<1, 2>>]) = 1
    /\ written[<<1, 2>>][1].processed = PrettyText
    /\ written[<<1, 2>>][1].tags = <<>>

\* Every enabled output has received exactly one write, of a line break and
\* nothing else, and a disabled output has received none.
NewLineWritten ==
    \A k \in 1..Len(outputs) :
        IF outputs[k].status = "Enabled"
        THEN /\ calls[<<1, k>>] = 1
             /\ Len(written[<<1, k>>]) = 1
             /\ written[<<1, k>>][1].processed = NewLine
        ELSE calls[<<1, k>>] = 0 /\ written[<<1, k>>] = <<>>

RECURSIVE SplitList(_, _)
\* The names of a list separated by the character sep.
SplitList(s, sep) ==
    IF \A j \in 1..Len(s) : s[j] # sep THEN <<s>>
    ELSE LET j == CHOOSE n \in 1..Len(s) : s[n] = sep /\ \A q \in 1..(n - 1) : s[q] # sep
         IN <<SubSeq(s, 1, j - 1)>> \o SplitList(SubSeq(s, j + 1, Len(s)), sep)

\* The component filter is set and the name of the logger is not in its list.
FilteredOut == filterEnv # <<>> /\ ~InSeq(cur, SplitList(filterEnv, ","))

\* C17: when the component filter is set and the logger's name is not one of
\* the names of its list, every message printed through the logger is dropped
\* and no output is touched; when the name is in the list or the filter is
\* unset, the dispatch proceeds.
C17_ComponentFilter ==
    Finished =>
        \A w \in Workers :
            LET m == batch[w[1]]
                o == outputs[w[2]]
            IN IF FilteredOut
               THEN calls[w] = 0 /\ written[w] = <<>>
               ELSE (/\ ~(m.original = <<>> /\ m.flag = "SkipAndMute")
                     /\ o.status = "Enabled"
                     /\ Targeted(o, m)) => calls[w] = 1

\* C19: every tuple of PrintMessagesToOutputsWithOptions is written only to
\* the output named by the tuple's OutputName, whatever the Options value.
C19_OptionsKeepTuplePinned ==
    request.op = "PrintMessagesToOutputsWithOptions" =>
        \A w \in Workers :
            written[w] # <<>> =>
                outputs[w[2]].name = request.mtos[w[1]].OutputName

FirstFailing(o) ==
    IF ChainHasNo(o, {"ErrorSimulator"}) THEN 0
    ELSE CHOOSE j \in 1..Len(o.processors) :
            /\ o.processors[j].name = "ErrorSimulator"
            /\ \A n \in 1..(j - 1) : o.processors[n].name # "ErrorSimulator"

\* C25: when a processor of an output's chain returns an error for a message,
\* no later processor of that chain runs on the message, nothing is handed to
\* the sink, the error is the result of that output's Write, and the chains
\* of the other outputs for the same message run to their end.
C25_ProcessorErrorAbortsOwnChain ==
    \A w \in Workers :
        LET o == outputs[w[2]]
            j == FirstFailing(o)
        IN (calls[w] = 1 /\ j > 0 /\ ~SkipsProcessors(batch[w[1]].flag)) =>
              /\ widx[w] <= j
              /\ written[w] = <<>>
              /\ heap[wref[w]] =
                    ApplyFirst(o.processors,
                               IF werr[w] THEN j ELSE widx[w] - 1,
                               Stamped(w[1], w[2]))
              /\ WriteReturned(w) => werr[w]
              /\ Finished =>
                    \A v \in Workers :
                        (v[1] = w[1] /\ WriteDue(v[1], v[2])
                           /\ FirstFailing(outputs[v[2]]) = 0) =>
                            /\ WriteReturned(v)
                            /\ widx[v] = Len(outputs[v[2]].processors) + 1
                            /\ heap[wref[v]] =
                                  ApplyFirst(outputs[v[2]].processors,
                                             Len(outputs[v[2]].processors),
                                             Stamped(v[1], v[2]))

\* C25 witness: one message went through an output whose chain is
\* ErrorSimulator, Prefixer("Z") and through an output with Prefixer("X"): the
\* Write of the first returned the error with the content left without "Z",
\* the second wrote the content with its prefix.
C25_Witness ==
    /\ pc = "returned" /\ Len(outputs) = 2
    /\ \E i \in 1..Len(batch) : \E k \in 1..2 :
          /\ FirstFailing(outputs[k]) = 1 /\ Len(outputs[k].processors) = 2
          /\ WriteReturned(<<i, k>>) /\ werr[<<i, k>>]
          /\ heap[wref[<<i, k>>]].processed = batch[i].original
          /\ batch[i].original # <<>>
          /\ WriteReturned(<<i, 3 - k>>) /\ ~werr[<<i, 3 - k>>]
          /\ Len(written[<<i, 3 - k>>]) = 1
          /\ written[<<i, 3 - k>>][1].processed = <<"X">> \o batch[i].original

\* The message workers whose next step is the assignment shouldExit = true:
\* processOutputs has returned to them and their message is at level Fatal.
ShouldExitWritePending ==
    {i \in 1..Len(batch) :
        mpc[i] = "wait" /\ ProcessOutputsWait(i) /\ batch[i].level = Fatal}

\* The message workers of the call that have assigned shouldExit.
ShouldExitWriters ==
    {i \in 1..Len(batch) :
        mpc[i] = "done" /\ ~Dropped(batch[i]) /\ batch[i].level = Fatal}

\* C28: no variable is written by two message workers of one process call
\* without an order between the writes: the workers synchronize with nothing
\* but the g.Wait() of process, so the flag shouldExit of the call is
\* assigned by at most one worker, and never are the assignments of two
\* workers both the next step.
C28_NoUnorderedSharedWrite ==
    /\ Cardinality(ShouldExitWriters) <= 1
    /\ Cardinality(ShouldExitWritePending) <= 1

\* C30: the status of the logger is not consulted by the dispatch: whatever
\* GetStatus() is, a print of a message with content, no outputsNames and no
\* component filter invokes Write exactly on the enabled outputs, each on the
\* message its own chain makes of the print, and only the status of the
\* output gates the Write.
C30_LoggerStatusNotConsulted ==
    Finished =>
        \A w \in Workers :
            /\ calls[w] = (IF outputs[w[2]].status = "Enabled" THEN 1 ELSE 0)
            /\ calls[w] = 1 =>
                  /\ heap[wref[w]] = OwnChainOnly(w)
                  /\ Len(written[w]) =
                        (IF PassesLevelFilter(OwnChainOnly(w), outputs[w[2]])
                            /\ ~Muted(OwnChainOnly(w))
                         THEN 1 ELSE 0)
                  /\ \A j \in 1..Len(written[w]) : written[w][j] = OwnChainOnly(w)

\* C30 witness: the logger is Disabled, one of its outputs is disabled and the
\* other is not: a print through the logger was written by the enabled output
\* and reached no Write of the disabled one.
C30_Witness ==
    /\ pc = "returned" /\ GetStatus = "Disabled" /\ Len(batch) = 1
    /\ \E k \in 1..2 :
          /\ outputs[k].status = "Disabled" /\ calls[<<1, k>>] = 0
          /\ outputs[3 - k].status = "Enabled" /\ calls[<<1, 3 - k>>] = 1
          /\ Len(written[<<1, 3 - k>>]) = 1

\* The names of the two outputs of NewDefault.
ConsoleName == <<"C","o","n","s","o","l","e">>
StdErrName == <<"S","t","d","E","r","r">>

\* C24: for the logger of NewDefault and every print operation, a message at
\* level Error or Fatal is handed to the sink of StdErr only, never to the
\* sink of Console, and a message at any other level is never handed to the
\* sink of StdErr.
C24_DefaultSplitsErrors ==
    \A w \in Workers : \A j \in 1..Len(written[w]) :
        /\ outputs[w[2]].name = ConsoleName =>
              written[w][j].level \notin {Error, Fatal}
        /\ outputs[w[2]].name = StdErrName =>
              written[w][j].level \in {Error, Fatal}

RECURSIVE LowerCase(_)
\* A name with its capital letters replaced by the small ones.
LowerCase(s) ==
    IF Len(s) = 0 THEN <<>>
    ELSE << (CASE Head(s) = "A" -> "a" [] Head(s) = "B" -> "b" [] OTHER -> Head(s)) >>
         \o LowerCase(Tail(s))

\* Two names differ at most in the case of their letters.
SameIgnoringCase(s, t) == LowerCase(s) = LowerCase(t)

\* GetOutput and SetOutputs match the names ignoring the case of the letters.
LookupsIgnoreCase ==
    /\ \A n \in LookupNames :
          /\ GetOutput(n) # 0 <=>
                \E k \in 1..Len(outputs) : SameIgnoringCase(outputs[k].name, n)
          /\ GetOutput(n) # 0 => SameIgnoringCase(outputs[GetOutput(n)].name, n)
    /\ \A o \in ReplacementOutputs : \A k \in 1..Len(outputs) :
          SetOutputsOf(outputs, <<o>>)[k] =
              IF SameIgnoringCase(outputs[k].name, o.name) THEN o ELSE outputs[k]

\* A message that lists a name is written to the enabled output whose name
\* differs from it at most in the case of the letters.
RoutingIgnoresCase ==
    Finished =>
        \A w \in Workers :
            (/\ outputs[w[2]].status = "Enabled"
             /\ \E j \in 1..Len(batch[w[1]].outputsNames) :
                   SameIgnoringCase(batch[w[1]].outputsNames[j], outputs[w[2]].name))
                => calls[w] = 1

\* C23: the lookups of an output by its name ignore the case of the letters
\* throughout the logger: GetOutput, SetOutputs, and the selection of the
\* outputs a message lists by name.
C23_CaseInsensitiveLookups == LookupsIgnoreCase /\ RoutingIgnoresCase

\* The logger a print of the held message goes through.
Through == ReprintLoggers[held.prints + 1]

\* C27: a message built without outputsNames and printed with PrintMessage
\* through L1 and then through L2 is, on each print, written by every enabled
\* output of the logger it is printed through that passes the level filter,
\* with the fields and the tags of that logger and of the message as built:
\* the first print changes nothing of what the second print uses.
C27_RepeatablePrint ==
    (pc = "returned" /\ request.op = "PrintMessage" /\ held.prints < Len(ReprintLoggers)) =>
        \A k \in 1..Len(outputs) :
            (/\ outputs[k].status = "Enabled"
             /\ held.asBuilt.level <= outputs[k].maxLevel) =>
                /\ Len(written[<<1, k>>]) = 1
                /\ written[<<1, k>>][1].fields =
                      FieldsCopy(held.asBuilt.fields, Through.fields)
                /\ written[<<1, k>>][1].tags = Through.tags \o held.asBuilt.tags

\* The map the caller passed to WithFields holds the entries it had when it
\* was passed.
CallerMapUntouched ==
    (built # NoMessage /\ built.callerRef # 0) =>
        maps[built.callerRef] = built.asPassed

\* The message holds the fields the options gave it: those of WithFields, then
\* key = value for each WithField, the other fields unchanged.
MessageFieldsAsGiven ==
    built # NoMessage => maps[built.fieldsRef] = built.fieldsDue

\* C26: the functional options change nothing but the message they are given:
\* the map a caller passed to WithFields has the same entries during and
\* after the print, also when WithField is applied afterwards, and WithField
\* leaves the message with field key = value and its other fields unchanged.
C26_OptionsArePure == CallerMapUntouched /\ MessageFieldsAsGiven

\* C21: a child logger holds a copy of the global state of its parent: after
\* child := parent.New(name), the tags, fields, status and default level each
\* of the two loggers returns are those the parent had at the derivation
\* followed by what was set through that same logger; no SetTags, SetFields,
\* SetStatus or SetDefaultIoWriterLevel on one changes what the other returns.
C21_ChildCopiesGlobalState ==
    \A x \in 1..Len(sypls) :
        /\ GetTags(x) = expect[x].tags
        /\ GetFields(x) = expect[x].fields
        /\ sypls[x].status = expect[x].status
        /\ sypls[x].defaultIoWriterLevel = expect[x].level

\* C22: in every state of a logger, after any sequence of New, AddOutputs,
\* SetOutputs and child derivation, no two outputs of the logger's output set
\* have the same name.
C22_OutputNamesUnique ==
    \A x \in 1..Len(sypls) :
        \A i, j \in 1..Len(GetOutputs(x)) :
            i # j => GetOutputs(x)[i].name # GetOutputs(x)[j].name

\* C29: AddOutputs is local to the logger it is called on: the outputs of each
\* of parent and child are those it had at the derivation followed by exactly
\* the outputs added through that same logger, in order.
C29_AddOutputsIsLocal ==
    \A x \in 1..Len(sypls) : GetOutputs(x) = expect[x].outputs

====
